---------------------------- MODULE Spec2Model ----------------------------
(***************************************************************************)
(* Model of autodict.py: the Autodict store (an in-memory mapping mirrored *)
(* to one file), its change tracking, its file binding and its teardown.   *)
(*                                                                         *)
(* Python values are records [ty, n, s, id]: ty is the exact type, n the   *)
(* numeric content, s the textual content (of a list: the text whose       *)
(* characters are its items) and id the object identity.                   *)
(* Mapping keys are strings; the key "#1" stands for the int key 1, every   *)
(* other key string is a str key.                                          *)
(***************************************************************************)
EXTENDS Integers, Sequences, FiniteSets, TLC

(* ------------------------------ bounds -------------------------------- *)

\* Number of distinct objects (identities) that exist per non-interned value.
MaxId == 2

(* --------------------------- Python values ---------------------------- *)

\* Small ints and one-character strs are interned by the interpreter: one
\* object per value (id 0). Longer strs, lists and Path objects have
\* identities 1..MaxId.
IntV(n) == [ty |-> "int", n |-> n, s |-> "", id |-> 0]
CharV(t) == [ty |-> "str", n |-> 0, s |-> t, id |-> 0]
StrV(t, i) == [ty |-> "str", n |-> 0, s |-> t, id |-> i]
ListV(t, i) == [ty |-> "list", n |-> 0, s |-> t, id |-> i]
PathV(t, i) == [ty |-> "path", n |-> 0, s |-> t, id |-> i]

\* "no value": the result of a failed cast, and the old value of an absent key
NoVal == [ty |-> "none", n |-> 0, s |-> "", id |-> 0]

\* The empty dict
EmptyMap == [k \in {} |-> NoVal]

\* IMMUTABLES = (int, str, float, bool, tuple, bytes, complex, frozenset, Decimal)
IMMUTABLES == {"int", "str"}

\* MUTABLES_WITH_EQ = (list, set, bytearray, dict)
MUTABLES_WITH_EQ == {"list"}

\* isinstance(value, (IMMUTABLES, MUTABLES_WITH_EQ))
IsComparable(v) == v.ty \in (IMMUTABLES \cup MUTABLES_WITH_EQ)

\* a is b
PyIs(a, b) == a = b

\* a == b : by type and content, never by identity
PyEq(a, b) == a.ty = b.ty /\ a.n = b.n /\ a.s = b.s

\* a != b
PyNe(a, b) == ~PyEq(a, b)

\* dict equality: same keys, equal values
SnapEq(d1, d2) ==
    /\ DOMAIN d1 = DOMAIN d2
    /\ \A k \in DOMAIN d1 : PyEq(d1[k], d2[k])

\* The texts int() accepts, with the number each denotes; every other text
\* raises ValueError.
IntTexts == {"7", "5"}
IntOfText(t) == CASE t = "7" -> 7 [] t = "5" -> 5 [] OTHER -> 0

\* An identity for an object created now: one that the object `existing`, the
\* only object it is compared with, does not have.
FreshId(existing, ty, t) ==
    IF existing.ty = ty /\ existing.s = t /\ existing.id = 1 THEN 2 ELSE 1

\* _cast(value, totype) = totype(value), for a str value; NoVal when the
\* constructor raises.
\*   int(t)  : the number the text denotes, ValueError otherwise
\*   list(t) : the list of the characters of t, a new object
\*   Path(t) : the path t, a new object
_cast(value, existing) ==
    CASE existing.ty = "int" ->
            IF value.s \in IntTexts THEN IntV(IntOfText(value.s)) ELSE NoVal
      [] existing.ty = "list" ->
            ListV(value.s, FreshId(existing, "list", value.s))
      [] existing.ty = "path" ->
            PathV(value.s, FreshId(existing, "path", value.s))
      [] OTHER -> NoVal

(* ---------------------- formats and file content ---------------------- *)

\* class FileFormat(Enum); "xml" stands for any value that is not a member
FileFormats == {"pickle_human", "pickle_binary", "json", "json_pretty"}

\* _DANGEROUS_OBJECT_PICKLE_FORMATS = (FileFormat.pickle_binary, )
_DANGEROUS_OBJECT_PICKLE_FORMATS == {"pickle_binary"}

\* _openflags: the formats that have an open mode. Every mode is "a+" or
\* "ab+": read and write, create if missing, never truncate on open.
_openflags == {"pickle_binary", "pickle_human", "json", "json_pretty"}

\* The decoder family of a format: pickle.load reads both pickle protocols,
\* json.load reads both JSON layouts.
Family(fmt) == IF fmt \in {"pickle_human", "pickle_binary"} THEN "pickle" ELSE "json"

\* The content of a file: missing, empty (length 0), corrupt (bytes no
\* decoder reads: a partial write), or the encoding of a mapping in a format.
Missing == [kind |-> "missing", fmt |-> "", map |-> EmptyMap]
EmptyFile == [kind |-> "empty", fmt |-> "", map |-> EmptyMap]
Corrupt == [kind |-> "corrupt", fmt |-> "", map |-> EmptyMap]
Encoded(fmt, map) == [kind |-> "data", fmt |-> fmt, map |-> map]

\* Serialised values carry no object identity.
Strip(v) == [v EXCEPT !.id = 0]

\* The values the interpreter interns
Interned(v) == v.ty = "int" \/ (v.ty = "str" /\ v.s \in {"7", "5"})

\* A decoder creates its objects: an interned value is the interned object,
\* any other value is a new object.
Revive(v) == IF Interned(v) THEN [v EXCEPT !.id = 0] ELSE [v EXCEPT !.id = 1]

\* The modules pickle needs in sys.modules to pickle the values of a mapping
NeededModules(data) == {"pathlib" : k \in {x \in DOMAIN data : data[x].ty = "path"}}

\* json.dump turns a key into text: str(1) = "1"
JsonKey(k) == IF k = "#1" THEN "1" ELSE k

\* json.dump accepts int, str and list values; any other value is a TypeError
JsonValueOk(v) == v.ty \in {"int", "str", "list"}

\* json.dump(data): the mappings a reader of the written text can get. Two
\* keys of data with the same text are both written and the reader keeps the
\* last one; the dict order is not modelled, so either may be the last.
JsonMaps(data) ==
    LET jkeys == {JsonKey(k) : k \in DOMAIN data}
    IN {m \in [jkeys -> {Strip(data[k]) : k \in DOMAIN data}] :
            \A jk \in jkeys : \E k \in DOMAIN data : JsonKey(k) = jk /\ m[jk] = Strip(data[k])}

\* pickle.dump(data, protocol): the mapping as it is
PickleMap(data) == [k \in DOMAIN data |-> Strip(data[k])]

\* The formats whose encoder looks the module of a value's class up in
\* sys.modules: pickle does, under either protocol; json does not
DependsOnModules(fmt) == Family(fmt) = "pickle"

\* Whether the encoder of fmt can write data, with sys.modules = mods
EncodeOk(fmt, data, mods) ==
    IF Family(fmt) = "pickle" THEN NeededModules(data) \subseteq mods
    ELSE \A k \in DOMAIN data : JsonValueOk(data[k])

\* The contents a successful dump of data in fmt can leave in the file
Encodings(fmt, data) ==
    IF Family(fmt) = "pickle" THEN {Encoded(fmt, PickleMap(data))}
    ELSE {Encoded(fmt, m) : m \in JsonMaps(data)}

\* What a failed dump leaves in the truncated file: pickle writes nothing
\* before it fails, json.dump has written the text up to the bad value.
PartialWrite(fmt) == IF Family(fmt) = "pickle" THEN EmptyFile ELSE Corrupt

\* pickle.load / json.load succeed on content written by the same family
DecodeOk(fmt, content) == content.kind = "data" /\ Family(content.fmt) = Family(fmt)

\* The decoded mapping
Decode(content) == [k \in DOMAIN content.map |-> Revive(content.map[k])]

\* d1.update(d2)
Update(d1, d2) ==
    [k \in DOMAIN d1 \cup DOMAIN d2 |-> IF k \in DOMAIN d2 THEN d2[k] ELSE d1[k]]

(* ------------------------------ paths --------------------------------- *)

\* self._file = None
None == "<None>"

\* The paths given to the store, which name one file when ~ is expanded,
\* and the files they can name
PathArgs == {"/h/p", "~/p"}
AllFiles == {"/h/p", "~/p"}

\* `if newfile:` : neither None nor the empty string
Truthy(p) == p # None /\ p # ""

\* pathlib.Path(p).expanduser(): a leading ~ becomes the home directory /h
expanduser(p) == IF p = "~/p" THEN "/h/p" ELSE p

(* --------------------------- the program ------------------------------ *)
(* A world w is [st, fs, fds, mods]:                                       *)
(*   st   the Autodict object: its attributes and its class-level settings *)
(*   fs   the content of every file                                        *)
(*   fds  the open file handles of the process, as <<handle, path>> pairs  *)
(*   mods sys.modules, as the set of the module names it holds             *)
(* An operation returns [w, err, wrote, safe]: the world it leaves, the    *)
(* exception it raises ("none" when it returns), whether it truncated the  *)
(* file, and whether it took the pickle._dump path of a shutdown.          *)

\* sys.modules of a running interpreter
AllModules == {"pathlib"}

Ret(w) == [w |-> w, err |-> "none", wrote |-> FALSE, safe |-> FALSE]
Raise(w, e) == [w |-> w, err |-> e, wrote |-> FALSE, safe |-> FALSE]

\* A handle number not in use
NewHandle(fds) == CHOOSE n \in 1..(Cardinality(fds) + 1) : \A h \in fds : h[1] # n

\* A handle that is never closed
CloseHandleNever(w) == w

\* self._fhandle.close(); self._fhandle = None   (when a handle is held)
CloseHandle(w) ==
    IF w.st._fhandle # 0
    THEN [w EXCEPT !.fds = {h \in w.fds : h[1] # w.st._fhandle}, !.st._fhandle = 0]
    ELSE w

\* An open in the mode "w+", which truncates the file it opens
OpenFileTruncating(w, path) ==
    LET n == NewHandle(w.fds)
    IN [w EXCEPT !.fds = w.fds \cup {<<n, path>>},
                 !.st._fhandle = n,
                 !.fs[path] = EmptyFile]

\* open(newfile, mode): creates a missing file empty, keeps an existing one
OpenFile(w, path) ==
    LET n == NewHandle(w.fds)
    IN [w EXCEPT !.fds = w.fds \cup {<<n, path>>},
                 !.st._fhandle = n,
                 !.fs[path] = IF w.fs[path].kind = "missing" THEN EmptyFile ELSE w.fs[path]]

\* The path the setter binds: Path(newfile), expanded under expand_home
NewFile(st, newfile) ==
    IF Truthy(newfile)
    THEN (IF st.expand_home THEN expanduser(newfile) ELSE newfile)
    ELSE newfile

\* @file.setter file(self, newfile). env is what the file system does:
\* "ok", "mkdir_fail" (the parent directory is missing and, under auto_mkdir,
\* parent.mkdir raises; without auto_mkdir open raises for the missing
\* parent) or "open_fail" (open raises). Both failures come after the close.
file_setter(w, newfile, env) ==
    LET nf == NewFile(w.st, newfile)
        closed == CloseHandle(w)
    IN IF w.st._file = nf THEN Ret(w)
       ELSE IF ~Truthy(nf) THEN Ret([closed EXCEPT !.st._file = nf])
       ELSE IF w.st.default_file_format \notin _openflags THEN Raise(closed, "TypeError")
       ELSE IF env # "ok" THEN Raise(closed, "OSError")
       ELSE Ret([OpenFile(closed, nf) EXCEPT !.st._file = nf])

\* has_mutables
has_mutables(st) == \E k \in DOMAIN st.data : st.data[k].ty \notin IMMUTABLES

\* A load that seeds the defaults whatever the file holds
SeedDefaultsAlways(st, include_defaults, fileempty) == TRUE

\* `if self.include_defaults or self.file is None or fileempty`
SeedDefaults(st, include_defaults, fileempty) ==
    include_defaults \/ st._file = None \/ fileempty

\* load(self, file=None), after the optional rebinding
LoadBound(w, include_defaults) ==
    LET st == w.st
        content == IF Truthy(st._file) THEN w.fs[st._file] ELSE EmptyFile
        fileempty == IF Truthy(st._file) THEN content.kind \in {"empty", "missing"} ELSE TRUE
        seeded == IF SeedDefaults(st, include_defaults, fileempty) THEN st.instancedefaults ELSE EmptyMap
    IN IF Truthy(st._file) /\ st._fhandle = 0
       THEN Raise([w EXCEPT !.st.data = EmptyMap], "AttributeError")
       ELSE IF Truthy(st._file) /\ ~fileempty
       THEN IF st.default_file_format \notin FileFormats
            THEN Raise([w EXCEPT !.st.data = seeded], "ValueError")
            ELSE IF DecodeOk(st.default_file_format, content)
            THEN Ret([w EXCEPT !.st.data = Update(seeded, Decode(content)),
                               !.st.changed = FALSE])
            ELSE Raise([w EXCEPT !.st.data = seeded], "DecodeError")
       ELSE Ret([w EXCEPT !.st.data = seeded, !.st.changed = FALSE])

\* load(self, file=None)
load(w, include_defaults, file, env) ==
    IF Truthy(file)
    THEN LET r == file_setter(w, file, env)
         IN IF r.err # "none" THEN r ELSE LoadBound(r.w, include_defaults)
    ELSE LoadBound(w, include_defaults)

\* A save that writes whenever changes are tracked, whether or not there are any
MustWriteAnyTracked(st, force) == force \/ st.track_changes \/ st.changed

\* `if force or not self.track_changes or (self.track_changes and self.changed)`
MustWrite(st, force) == force \/ ~st.track_changes \/ (st.track_changes /\ st.changed)

\* `if self._del and len(sys.modules) == 0 and format in _DANGEROUS_...`
UseSafeDump(st, mods) ==
    st._del /\ mods = {} /\ st.default_file_format \in _DANGEROUS_OBJECT_PICKLE_FORMATS

\* A write that does not truncate: the dump is appended to what the file
\* holds, and a reader gets the old pickle, or no JSON text at all
WriteResultsAppending(w) ==
    LET st == w.st
        old == w.fs[st._file]
        left == IF Family(st.default_file_format) = "pickle" THEN old ELSE Corrupt
    IN IF EncodeOk(st.default_file_format, st.data, w.mods)
       THEN {[w |-> [w EXCEPT !.fs[st._file] = IF old.kind = "empty" THEN c ELSE left,
                              !.st.changed = FALSE],
              err |-> "none", wrote |-> TRUE, safe |-> FALSE] :
                c \in Encodings(st.default_file_format, st.data)}
       ELSE {[w |-> w, err |-> "EncodeError", wrote |-> TRUE, safe |-> FALSE]}

\* A write that clears the flag before it dumps
WriteResultsClearingFirst(w) ==
    LET st == w.st
        safe == UseSafeDump(st, w.mods)
        mods == IF safe THEN w.mods \cup st.noahs_ark_modules ELSE w.mods
        w1 == [w EXCEPT !.mods = mods, !.st.changed = FALSE]
    IN IF st.default_file_format \notin FileFormats
       THEN {[w |-> [w1 EXCEPT !.fs[st._file] = EmptyFile],
              err |-> "ValueError", wrote |-> TRUE, safe |-> safe]}
       ELSE IF EncodeOk(st.default_file_format, st.data, mods)
       THEN {[w |-> [w1 EXCEPT !.fs[st._file] = c],
              err |-> "none", wrote |-> TRUE, safe |-> safe] :
                c \in Encodings(st.default_file_format, st.data)}
       ELSE {[w |-> [w1 EXCEPT !.fs[st._file] = PartialWrite(st.default_file_format)],
              err |-> "EncodeError", wrote |-> TRUE, safe |-> safe]}

\* The worlds the write of save() can leave: seek(0), truncate, dump, flush,
\* changed = False. A dump that raises leaves the truncated file and the flag.
WriteResults(w) ==
    LET st == w.st
        safe == UseSafeDump(st, w.mods)
        mods == IF safe THEN w.mods \cup st.noahs_ark_modules ELSE w.mods
        w1 == [w EXCEPT !.mods = mods]
    IN IF st.default_file_format \notin FileFormats
       THEN {[w |-> [w1 EXCEPT !.fs[st._file] = EmptyFile],
              err |-> "ValueError", wrote |-> TRUE, safe |-> safe]}
       ELSE IF EncodeOk(st.default_file_format, st.data, mods)
       THEN {[w |-> [w1 EXCEPT !.fs[st._file] = c, !.st.changed = FALSE],
              err |-> "none", wrote |-> TRUE, safe |-> safe] :
                c \in Encodings(st.default_file_format, st.data)}
       ELSE {[w |-> [w1 EXCEPT !.fs[st._file] = PartialWrite(st.default_file_format)],
              err |-> "EncodeError", wrote |-> TRUE, safe |-> safe]}

\* save(self, file=None, force=False), after the optional rebinding
SaveBound(w, force) ==
    IF w.st._file = None THEN {Raise(w, "IOError")}
    ELSE IF ~MustWrite(w.st, force) THEN {Ret(w)}
    ELSE IF w.st._fhandle = 0 THEN {Raise(w, "AttributeError")}
    ELSE WriteResults(w)

\* save(self, file=None, force=False): the set of its possible results
save(w, file, force, env) ==
    IF Truthy(file)
    THEN LET r == file_setter(w, file, env)
         IN IF r.err # "none" THEN {r} ELSE SaveBound(r.w, force)
    ELSE SaveBound(w, force)

\* `if self.auto_cast and type(existing_value) is not str and type(value) is str`
NeedsCast(auto_cast, existing, value) ==
    auto_cast /\ existing.ty # "str" /\ value.ty = "str"

\* A comparison of the objects in place of their values
DeepCheckByIdentity(existing, value) == ~PyIs(existing, value)

\* A comparison of the types in place of the values
DeepCheckByType(existing, value) == existing.ty # value.ty

\* Lines 228-237: the new value of self.changed for a present key of a clean
\* store, given the existing value and the (cast) new value
DeepCheck(existing, value) ==
    IF IsComparable(value) THEN PyNe(existing, value) ELSE TRUE

\* A tracking that takes a key it has never seen for an unchanged one
TrackChangesKnownKeysOnly(st, auto_cast, key, value) ==
    LET present == key \in DOMAIN st.data
        existing == IF present THEN st.data[key] ELSE NoVal
        cast == present /\ NeedsCast(auto_cast, existing, value)
        value1 == IF cast THEN _cast(value, existing) ELSE value
        out(c, v, d, e) == [changed |-> c, value |-> v, done_cast |-> d, exit |-> e]
    IN IF ~st.track_changes \/ st.changed \/ ~present THEN out(st.changed, value, FALSE, "")
       ELSE IF value1 = NoVal THEN out(st.changed, value, FALSE, "raise")
       ELSE IF PyIs(existing, value1) THEN out(st.changed, value1, cast, "return")
       ELSE out(DeepCheck(existing, value1), value1, cast, "")

\* A tracking that takes every assignment for a change
TrackChangesEveryAssignment(st, auto_cast, key, value) ==
    [changed |-> IF st.track_changes THEN TRUE ELSE st.changed,
     value |-> value, done_cast |-> FALSE, exit |-> ""]

\* Lines 208-237 of __setitem__, the tracking of changes:
\* [changed, value, done_cast, exit], exit being "return", "raise" or ""
TrackChanges(st, auto_cast, key, value) ==
    LET present == key \in DOMAIN st.data
        changed1 == IF ~present THEN TRUE ELSE st.changed
        existing == IF present THEN st.data[key] ELSE NoVal
        cast == NeedsCast(auto_cast, existing, value)
        value1 == IF cast THEN _cast(value, existing) ELSE value
        out(c, v, d, e) == [changed |-> c, value |-> v, done_cast |-> d, exit |-> e]
    IN IF ~st.track_changes THEN out(st.changed, value, FALSE, "")
       ELSE IF changed1 THEN out(TRUE, value, FALSE, "")
       ELSE IF value1 = NoVal THEN out(st.changed, value, FALSE, "raise")
       ELSE IF PyIs(existing, value1) THEN out(st.changed, value1, cast, "return")
       ELSE out(DeepCheck(existing, value1), value1, cast, "")

\* A set that casts inside the tracking of changes only
LateCastSkipped(st, auto_cast, key, value, done_cast) == value

\* Lines 239-245 of __setitem__, the cast not yet done by the tracking:
\* the value to store, NoVal when the cast raises
LateCast(st, auto_cast, key, value, done_cast) ==
    IF auto_cast /\ ~done_cast /\ value.ty = "str" /\ key \in DOMAIN st.data
    THEN (IF st.data[key].ty # "str" THEN _cast(value, st.data[key]) ELSE value)
    ELSE value

\* A set that updates the slot with the given value before it casts
__setitem__CastingLate(st, auto_cast, key, value) ==
    LET t == TrackChanges(st, auto_cast, key, value)
        v == LateCast(st, auto_cast, key, t.value, t.done_cast)
        given == Update(st.data, [k \in {key} |-> value])
    IN IF t.exit = "raise" THEN [st |-> [st EXCEPT !.data = given], err |-> "CastError"]
       ELSE IF t.exit = "return" THEN [st |-> st, err |-> "none"]
       ELSE IF v = NoVal
       THEN [st |-> [st EXCEPT !.changed = t.changed, !.data = given], err |-> "CastError"]
       ELSE [st |-> [st EXCEPT !.changed = t.changed,
                               !.data = Update(st.data, [k \in {key} |-> v])],
             err |-> "none"]

\* __setitem__(self, key, value): [st, err]
__setitem__(st, auto_cast, key, value) ==
    LET t == TrackChanges(st, auto_cast, key, value)
        v == LateCast(st, auto_cast, key, t.value, t.done_cast)
    IN IF t.exit = "raise" THEN [st |-> st, err |-> "CastError"]
       ELSE IF t.exit = "return" THEN [st |-> st, err |-> "none"]
       ELSE IF v = NoVal THEN [st |-> [st EXCEPT !.changed = t.changed], err |-> "CastError"]
       ELSE [st |-> [st EXCEPT !.changed = t.changed,
                               !.data = Update(st.data, [k \in {key} |-> v])],
             err |-> "none"]

\* A deletion that leaves the flag alone
__delitem__Untracked(st, key) ==
    IF key \notin DOMAIN st.data THEN [st |-> st, err |-> "KeyError"]
    ELSE [st |-> [st EXCEPT !.data = [k \in DOMAIN st.data \ {key} |-> st.data[k]]],
          err |-> "none"]

\* __delitem__(self, key): [st, err]
__delitem__(st, key) ==
    IF key \notin DOMAIN st.data THEN [st |-> st, err |-> "KeyError"]
    ELSE [st |-> [st EXCEPT !.data = [k \in DOMAIN st.data \ {key} |-> st.data[k]],
                            !.changed = IF st.track_changes THEN TRUE ELSE st.changed],
          err |-> "none"]

\* `if self.save_on_del and self.file`
SavesOnDel(st, save_on_del) == save_on_del /\ Truthy(st._file)

\* The end of __del__: self.file = None; self.data.clear(); del self.data
Release(w) ==
    LET r == file_setter(w, None, "ok")
    IN [r.w EXCEPT !.st.data = EmptyMap, !.st.phase = "dead"]

\* What is left when __del__ ends by an exception: the object is gone, and its
\* handle, which __del__ did not close, is closed when the interpreter
\* finalises the file object: at once, or not before the process ends.
Abandoned(r) ==
    {[r EXCEPT !.w.st.phase = "dead"],
     [r EXCEPT !.w.st.phase = "dead", !.w.fds = CloseHandle(r.w).fds]}

\* A finalisation that saves like any save(), only what has changed
__del__SavingChanges(w, save_on_del) ==
    LET w1 == [w EXCEPT !.st._del = TRUE]
    IN IF SavesOnDel(w1.st, save_on_del)
       THEN UNION {IF r.err # "none" THEN Abandoned(r)
                   ELSE {[r EXCEPT !.w = Release(r.w)]} : r \in save(w1, None, FALSE, "ok")}
       ELSE {Ret(Release(w1))}

\* __del__(self): the set of its possible results. An exception of the save
\* ends __del__ at once.
__del__(w, save_on_del) ==
    LET w1 == [w EXCEPT !.st._del = TRUE]
    IN IF SavesOnDel(w1.st, save_on_del)
       THEN UNION {IF r.err # "none" THEN Abandoned(r)
                   ELSE {[r EXCEPT !.w = Release(r.w)]} : r \in save(w1, None, TRUE, "ok")}
       ELSE {Ret(Release(w1))}

\* The settings include_defaults, auto_cast and save_on_del are attributes the
\* class gives the object and the program may assign before a call; each is
\* read by one method only, which takes the value it finds as a parameter.
\* The other settings are fields of the object, set when it is constructed
\* from args = [file, file_format, defaults, auto_load, track_changes,
\* include_defaults, expand_home, noahs_ark_modules].

\* The object at the start of __init__ (lines 108-114)
NewObject(args) ==
    [phase |-> "init",
     _file |-> None,
     _fhandle |-> 0,
     _del |-> FALSE,
     changed |-> FALSE,
     data |-> EmptyMap,
     instancedefaults |-> args.defaults,
     default_file_format |-> args.file_format,
     track_changes |-> args.track_changes,
     expand_home |-> args.expand_home,
     noahs_ark_modules |-> args.noahs_ark_modules]

\* __init__(self, file, file_format, **defaults) in a new process that finds
\* the files fs. A constructor that raises in the file setter leaves an object
\* without data, whose __del__ does nothing ("dead"); one that raises in
\* load() leaves a bound object ("broken") that only __del__ will visit.
__init__(fs, args, env) ==
    LET w0 == [st |-> NewObject(args), fs |-> fs, fds |-> {}, mods |-> AllModules]
        r1 == IF args.file # None THEN file_setter(w0, args.file, env) ELSE Ret(w0)
        r2 == IF args.auto_load THEN LoadBound(r1.w, args.include_defaults) ELSE Ret(r1.w)
    IN IF r1.err # "none" THEN [r1 EXCEPT !.w.st.phase = "dead"]
       ELSE IF r2.err # "none" THEN [r2 EXCEPT !.w.st.phase = "broken"]
       ELSE [r2 EXCEPT !.w.st.phase = "live"]

(* ------------------------------ inputs -------------------------------- *)

Keys == {"a"}

Values ==
    {IntV(5), CharV("7"), PathV("no", 1)}
        \cup {StrV("no", i) : i \in 1..MaxId}
        \cup {ListV("7", i) : i \in 1..MaxId}

\* The (key, value) pairs given to __setitem__
SetArgs == Keys \X Values

DefaultsArgs == {EmptyMap, [k \in {"a"} |-> IntV(5)]}

FormatArgs == {"pickle_binary", "json", "xml"}

EnvArgs == {"ok", "mkdir_fail", "open_fail"}

ConstructorArgs ==
    [file : PathArgs \cup {None, ""},
     file_format : FormatArgs,
     defaults : DefaultsArgs,
     auto_load : BOOLEAN,
     track_changes : BOOLEAN,
     include_defaults : BOOLEAN,
     expand_home : {TRUE},
     noahs_ark_modules : {{"pathlib"}}]

(* --------------------------- state machine ---------------------------- *)

VARIABLES st, fs, fds, mods, last

vars == <<st, fs, fds, mods, last>>

\* The world of the current state
World == [st |-> st, fs |-> fs, fds |-> fds, mods |-> mods]

\* No object: before the first construction and after a finalisation
Gone == [NewObject(CHOOSE a \in ConstructorArgs : TRUE) EXCEPT !.phase = "dead"]

\* The object an operation leaves, as the program can still see it
Seen(s) == IF s.phase = "dead" THEN Gone ELSE s

\* The state an operation result r leaves; last is the operation that led to
\* the state and the exception it raised ("none" when it returned).
Becomes(name, r) ==
    /\ st' = Seen(r.w.st)
    /\ fs' = r.w.fs
    /\ fds' = r.w.fds
    /\ mods' = r.w.mods
    /\ last' = [op |-> name, err |-> r.err]

\* No store exists, no file exists.
Init ==
    /\ st = Gone
    /\ fs = [f \in AllFiles |-> Missing]
    /\ fds = {}
    /\ mods = AllModules
    /\ last = [op |-> "start", err |-> "none"]

\* A program starts and constructs its store.
Construct ==
    /\ st.phase = "dead"
    /\ \E args \in ConstructorArgs, env \in EnvArgs :
        Becomes("__init__", __init__(fs, args, env))

\* The program can call the store: it holds the object, the interpreter runs
Usable == st.phase = "live" /\ mods # {}

\* ad.file = newfile
SetFile ==
    /\ Usable
    /\ \E newfile \in PathArgs \cup {None, ""}, env \in EnvArgs :
        Becomes("file", file_setter(World, newfile, env))

\* ad.load(file)
Load ==
    /\ Usable
    /\ \E include_defaults \in BOOLEAN, file \in PathArgs \cup {None}, env \in EnvArgs :
        Becomes("load", load(World, include_defaults, file, env))

\* ad.save(file, force)
Save ==
    /\ Usable
    /\ \E file \in PathArgs \cup {None}, force \in BOOLEAN, env \in EnvArgs :
        \E r \in save(World, file, force, env) : Becomes("save", r)

\* ad[key] = value
SetItem ==
    /\ Usable
    /\ \E auto_cast \in BOOLEAN, kv \in SetArgs :
        LET r == __setitem__(st, auto_cast, kv[1], kv[2])
        IN Becomes("__setitem__", [Ret([World EXCEPT !.st = r.st]) EXCEPT !.err = r.err])

\* del ad[key]
DelItem ==
    /\ Usable
    /\ \E key \in Keys :
        LET r == __delitem__(st, key)
        IN Becomes("__delitem__", [Ret([World EXCEPT !.st = r.st]) EXCEPT !.err = r.err])

\* The interpreter shuts down: sys.modules is emptied before the objects that
\* are still alive are finalised.
Shutdown ==
    /\ st.phase \in {"live", "broken"}
    /\ mods # {}
    /\ Becomes("shutdown", Ret([World EXCEPT !.mods = {}]))

\* The object is finalised: __del__ runs.
Teardown ==
    /\ st.phase \in {"live", "broken"}
    /\ \E save_on_del \in BOOLEAN :
        \E r \in __del__(World, save_on_del) : Becomes("__del__", r)

Next ==
    \/ Construct
    \/ SetFile
    \/ Load
    \/ Save
    \/ SetItem
    \/ DelItem
    \/ Shutdown
    \/ Teardown

Spec == Init /\ [][Next]_vars

(* ----------------------- file binding in detail ----------------------- *)
(* A second specification for the binding of the store to its file: the    *)
(* store may leave ~ unexpanded, so that the two path arguments name two   *)
(* files and the path can change from one file to the other; the snapshot  *)
(* is that of the defaults or of a file.                                   *)

FileBindingArgs ==
    [file : PathArgs \cup {None, ""},
     file_format : {"pickle_binary", "xml"},
     defaults : {[k \in {"a"} |-> IntV(5)]},
     auto_load : BOOLEAN,
     track_changes : BOOLEAN,
     include_defaults : {FALSE},
     expand_home : BOOLEAN,
     noahs_ark_modules : {{"pathlib"}}]

\* A program starts and constructs its store, with or without expand_home.
ConstructAnywhere ==
    /\ st.phase = "dead"
    /\ \E args \in FileBindingArgs, env \in EnvArgs :
        Becomes("__init__", __init__(fs, args, env))

NextFiles ==
    \/ ConstructAnywhere
    \/ SetFile
    \/ Load
    \/ Save
    \/ DelItem
    \/ Teardown

SpecFiles == Init /\ [][NextFiles]_vars

(* ------------------------ shutdown in detail -------------------------- *)
(* A third specification for the finalisation at interpreter shutdown: the *)
(* store is bound to /h/p in one of the two pickle formats and its defaults *)
(* may hold a Path, as those of MyConf do.                                 *)

ShutdownArgs ==
    [file : {"/h/p"},
     file_format : {"pickle_binary", "pickle_human"},
     defaults : {EmptyMap, [k \in {"a"} |-> PathV("no", 1)]},
     auto_load : BOOLEAN,
     track_changes : BOOLEAN,
     include_defaults : BOOLEAN,
     expand_home : {TRUE},
     noahs_ark_modules : {{"pathlib"}}]

\* A program starts and constructs its store on /h/p in a pickle format.
ConstructPickled ==
    /\ st.phase = "dead"
    /\ \E args \in ShutdownArgs :
        Becomes("__init__", __init__(fs, args, "ok"))

NextShutdown ==
    \/ ConstructPickled
    \/ Save
    \/ SetItem
    \/ DelItem
    \/ Shutdown
    \/ Teardown

SpecShutdown == Init /\ [][NextShutdown]_vars

(* ------------------- change tracking between saves ------------------- *)
(* A fourth specification for the tracking of changes: a tracked store     *)
(* stays bound to /h/p, and last records, besides the operation and its    *)
(* exception, the snapshot that the last save() wrote, as <<snapshot>>,    *)
(* when only sets and deletes (and saves that had nothing to write) have   *)
(* followed that save; <<>> otherwise.                                     *)

TrackingArgs ==
    [file : {"/h/p"},
     file_format : {"pickle_binary", "json"},
     defaults : DefaultsArgs,
     auto_load : BOOLEAN,
     track_changes : {TRUE},
     include_defaults : BOOLEAN,
     expand_home : {TRUE},
     noahs_ark_modules : {{"pathlib"}}]

\* The state an operation result r leaves, with the snapshot last written
BecomesTracking(name, r, written) ==
    /\ st' = Seen(r.w.st)
    /\ fs' = r.w.fs
    /\ fds' = r.w.fds
    /\ mods' = r.w.mods
    /\ last' = [op |-> name, err |-> r.err, written |-> written]

InitTracking ==
    /\ st = Gone
    /\ fs = [f \in AllFiles |-> Missing]
    /\ fds = {}
    /\ mods = AllModules
    /\ last = [op |-> "start", err |-> "none", written |-> <<>>]

\* A program starts and constructs its tracked store on /h/p.
ConstructTracked ==
    /\ st.phase = "dead"
    /\ \E args \in TrackingArgs :
        BecomesTracking("__init__", __init__(fs, args, "ok"), <<>>)

\* ad.load()
LoadTracked ==
    /\ Usable
    /\ \E include_defaults \in BOOLEAN :
        BecomesTracking("load", load(World, include_defaults, None, "ok"), <<>>)

\* ad.save(force=force)
SaveTracked ==
    /\ Usable
    /\ \E force \in BOOLEAN :
        \E r \in save(World, None, force, "ok") :
            BecomesTracking("save", r,
                            IF r.err # "none" THEN <<>>
                            ELSE IF r.wrote THEN <<st.data>> ELSE last.written)

\* ad[key] = value
SetItemTracked ==
    /\ Usable
    /\ \E auto_cast \in BOOLEAN, kv \in SetArgs :
        LET r == __setitem__(st, auto_cast, kv[1], kv[2])
        IN BecomesTracking("__setitem__",
                           [Ret([World EXCEPT !.st = r.st]) EXCEPT !.err = r.err],
                           last.written)

\* del ad[key]
DelItemTracked ==
    /\ Usable
    /\ \E key \in Keys :
        LET r == __delitem__(st, key)
        IN BecomesTracking("__delitem__",
                           [Ret([World EXCEPT !.st = r.st]) EXCEPT !.err = r.err],
                           last.written)

\* The object is finalised: __del__ runs.
TeardownTracked ==
    /\ st.phase \in {"live", "broken"}
    /\ \E save_on_del \in BOOLEAN :
        \E r \in __del__(World, save_on_del) : BecomesTracking("__del__", r, <<>>)

NextTracking ==
    \/ ConstructTracked
    \/ LoadTracked
    \/ SaveTracked
    \/ SetItemTracked
    \/ DelItemTracked
    \/ TeardownTracked

SpecTracking == InitTracking /\ [][NextTracking]_vars

(* ------------------------------ claims -------------------------------- *)
(* A claim about a method is stated for every reachable state of the store *)
(* and every argument: the method's result on that state is what the claim *)
(* says. The actions above apply the same methods to the same arguments.   *)

\* Every file that exists in f1 has the same content in f2
SameFiles(f1, f2) == \A f \in AllFiles : f1[f].kind # "missing" => f2[f] = f1[f]

\* The file arguments of load() and save()
FileArgs == PathArgs \cup {None}

\* C1 as stated: save(force=false) on a store whose dirty flag is false
\* truncates and writes nothing, whatever the settings of the store are.
C1_CleanSaveNeverWrites ==
    Usable /\ ~st.changed =>
        \A file \in FileArgs, env \in EnvArgs :
            \A r \in save(World, file, FALSE, env) : ~r.wrote /\ SameFiles(fs, r.w.fs)

\* C1 as amended: with tracking enabled, save(force=false) on a store whose
\* dirty flag is false truncates and writes nothing; and a save() that
\* returned leaves the flag false, so a second save() in a row writes nothing.
C1_TrackedCleanSaveWritesNothing ==
    Usable /\ st.track_changes =>
        /\ ~st.changed =>
            \A file \in FileArgs, env \in EnvArgs :
                \A r \in save(World, file, FALSE, env) : ~r.wrote /\ SameFiles(fs, r.w.fs)
        /\ last.op = "save" /\ last.err = "none" => ~st.changed

\* C1 witness: a tracked store just saved, its snapshot on disk, on which a
\* second save() returns without a write
C1_Witness ==
    /\ Usable /\ st.track_changes
    /\ last.op = "save" /\ last.err = "none"
    /\ st.data # EmptyMap
    /\ Truthy(st._file) /\ fs[st._file].kind = "data"
    /\ \A r \in save(World, None, FALSE, "ok") : r.err = "none" /\ ~r.wrote

\* The value __setitem__ compares and stores: the cast of a str given for a
\* present value that is no str, the given value otherwise
Incoming(auto_cast, existing, value) ==
    IF NeedsCast(auto_cast, existing, value) THEN _cast(value, existing) ELSE value

\* C2 as stated: on a clean store with tracking, set(k, v2) for a present key
\* with an immutable value v1 leaves the dirty flag true iff v1 != v2.
C2_DirtyIffUnequal ==
    Usable /\ st.track_changes /\ ~st.changed =>
        \A auto_cast \in BOOLEAN, kv \in SetArgs :
            kv[1] \in DOMAIN st.data /\ st.data[kv[1]].ty \in IMMUTABLES =>
                (__setitem__(st, auto_cast, kv[1], kv[2]).st.changed
                    <=> PyNe(st.data[kv[1]], kv[2]))

\* C2 as amended: on a clean store with tracking, set(k, v2) for a present key
\* with an immutable value v1 leaves the dirty flag true iff the incoming
\* value (v2, or its cast to the type of v1 under auto-cast) is another object
\* than v1 and is either of a type that is not compared or unequal to v1; a
\* set whose cast fails leaves the flag false.
C2_DirtyIffIncomingDiffers ==
    Usable /\ st.track_changes /\ ~st.changed =>
        \A auto_cast \in BOOLEAN, kv \in SetArgs :
            kv[1] \in DOMAIN st.data /\ st.data[kv[1]].ty \in IMMUTABLES =>
                LET v1 == st.data[kv[1]]
                    v2 == Incoming(auto_cast, v1, kv[2])
                IN __setitem__(st, auto_cast, kv[1], kv[2]).st.changed
                    <=> /\ v2 # NoVal
                        /\ ~PyIs(v1, v2)
                        /\ (~IsComparable(v2) \/ PyNe(v1, v2))

\* C2 witness: a clean tracked store holding a str under "a", for which an
\* equal str that is another object leaves the flag false and an int sets it
C2_Witness ==
    /\ Usable /\ st.track_changes /\ ~st.changed
    /\ "a" \in DOMAIN st.data /\ st.data["a"] = StrV("no", 1)
    /\ ~__setitem__(st, FALSE, "a", StrV("no", 2)).st.changed
    /\ __setitem__(st, FALSE, "a", IntV(5)).st.changed

\* C3: with tracking, set(k, v) for an absent key k returns with the dirty
\* flag true and the snapshot extended by k -> v, whatever the flag was.
C3_NewKeyMarksDirty ==
    Usable /\ st.track_changes =>
        \A auto_cast \in BOOLEAN, kv \in SetArgs :
            kv[1] \notin DOMAIN st.data =>
                LET r == __setitem__(st, auto_cast, kv[1], kv[2])
                IN /\ r.err = "none"
                   /\ r.st.changed
                   /\ DOMAIN r.st.data = DOMAIN st.data \cup {kv[1]}
                   /\ PyIs(r.st.data[kv[1]], kv[2])
                   /\ \A k \in DOMAIN st.data : PyIs(r.st.data[k], st.data[k])

\* C3 witness: a tracked store after an assignment, in the state the
\* assignment of its only key leaves a clean empty store in
C3_Witness ==
    /\ Usable /\ st.track_changes /\ st.changed
    /\ last.op = "__setitem__" /\ last.err = "none"
    /\ DOMAIN st.data = {"a"}
    /\ __setitem__([st EXCEPT !.data = EmptyMap, !.changed = FALSE],
                   FALSE, "a", st.data["a"]).st = st

\* C4: set(k, v1) with the object v1 that k holds leaves the dirty flag and the
\* snapshot as they are, under every setting.
C4_SameObjectIsNoOp ==
    Usable =>
        \A auto_cast \in BOOLEAN, k \in DOMAIN st.data :
            LET r == __setitem__(st, auto_cast, k, st.data[k])
            IN r.err = "none" /\ r.st.changed = st.changed /\ r.st.data = st.data

\* C4 witness: a clean tracked store holding a list, an object that is not
\* interned, after it was assigned again
C4_Witness ==
    /\ Usable /\ st.track_changes /\ ~st.changed
    /\ last.op = "__setitem__" /\ last.err = "none"
    /\ "a" \in DOMAIN st.data /\ st.data["a"].ty = "list"

\* C5: with tracking, delete(k) of a present key removes k alone and leaves
\* the dirty flag true; delete of an absent key raises and changes nothing.
C5_DeleteMarksDirty ==
    Usable /\ st.track_changes =>
        \A k \in Keys :
            LET r == __delitem__(st, k)
            IN IF k \in DOMAIN st.data
               THEN /\ r.err = "none"
                    /\ r.st.changed
                    /\ DOMAIN r.st.data = DOMAIN st.data \ {k}
                    /\ \A j \in DOMAIN r.st.data : PyIs(r.st.data[j], st.data[j])
               ELSE r.err = "KeyError" /\ r.st = st

\* C5 witness: a tracked store, dirty and empty after the deletion of its key
C5_Witness ==
    /\ Usable /\ st.track_changes /\ st.changed
    /\ last.op = "__delitem__" /\ last.err = "none"
    /\ st.data = EmptyMap

\* The constructor arguments of a fresh store that is bound to the path and
\* the format of the store and loads
FreshArgs ==
    {a \in ConstructorArgs :
        a.file = st._file /\ a.file_format = st.default_file_format /\ a.auto_load}

\* The fresh store constructed from a over the files f
Fresh(f, a) == __init__(f, a, "ok")

Expected(s, include_defaults, f) ==
    LET nonempty == Truthy(s._file) /\ f[s._file].kind \notin {"empty", "missing"}
        base == IF include_defaults \/ ~nonempty THEN s.instancedefaults ELSE EmptyMap
        map == IF nonempty THEN f[s._file].map ELSE EmptyMap
    IN [k \in DOMAIN base \cup DOMAIN map |-> IF k \in DOMAIN map THEN map[k] ELSE base[k]]

\* C7: a load() that returns leaves the snapshot that the defaults and the
\* bound file give, whatever the snapshot was, and from a file of the format.
C7_LoadResult ==
    Usable =>
        \A include_defaults \in BOOLEAN, file \in FileArgs, env \in EnvArgs :
            LET r == load(World, include_defaults, file, env)
            IN r.err = "none" =>
                /\ SnapEq(r.w.st.data, Expected(r.w.st, include_defaults, r.w.fs))
                /\ Truthy(r.w.st._file) /\ r.w.fs[r.w.st._file].kind # "empty" =>
                        DecodeOk(st.default_file_format, r.w.fs[r.w.st._file])

\* C7 witness: a store with a default for "a" after a load, bound to a file
\* that holds another value for "a", so that a load without the defaults
\* gives the file content and the file value wins in a load with them
C7_Witness ==
    /\ Usable /\ last.op = "load" /\ last.err = "none"
    /\ Truthy(st._file) /\ fs[st._file].kind = "data"
    /\ "a" \in DOMAIN st.instancedefaults /\ "a" \in DOMAIN fs[st._file].map
    /\ PyNe(fs[st._file].map["a"], st.instancedefaults["a"])
    /\ PyEq(st.data["a"], fs[st._file].map["a"])
    /\ load(World, TRUE, None, "ok").w.st.data = st.data

\* The store is synced: the bound file decodes to the snapshot (an empty
\* file standing for the empty snapshot)
Synced(s, f) ==
    IF f[s._file].kind = "data"
    THEN DecodeOk(s.default_file_format, f[s._file]) /\ SnapEq(Decode(f[s._file]), s.data)
    ELSE f[s._file].kind = "empty" /\ s.data = EmptyMap

\* C8 as stated: with tracking and a file bound, a false dirty flag means that
\* the bound file decodes to the snapshot; so after every load(), and across
\* a rebinding of the path.
C8_CleanMeansSynced ==
    st.phase = "live" /\ st.track_changes /\ Truthy(st._file) /\ ~st.changed =>
        Synced(st, fs)

C10_HandleAlwaysReleased ==
    /\ Usable =>
        \A newfile \in PathArgs \cup {None, ""}, env \in EnvArgs :
            LET r == file_setter(World, newfile, env)
            IN NewFile(st, newfile) # st._file => r.w.fds \cap fds = {}
    /\ st.phase \in {"live", "broken"} =>
        \A save_on_del \in BOOLEAN :
            \A r \in __del__(World, save_on_del) : r.w.fds = {}


\* C11 as stated: save() on a store with no file bound (its path is None or
\* the empty path) raises IOError, whatever force and the dirty flag are, and
\* leaves the snapshot and the dirty flag as they were.
C11_SaveUnboundRaisesIOError ==
    Usable /\ ~Truthy(st._file) =>
        \A force \in BOOLEAN :
            \A r \in save(World, None, force, "ok") :
                /\ r.err = "IOError"
                /\ r.w.st.data = st.data
                /\ r.w.st.changed = st.changed


\* C12: the process never holds more than one open handle of the store; a
\* setter call that changes the bound path leaves the handle that was open
\* closed, and no handle at all when the new path is None or empty; a setter
\* call with the bound path changes nothing.
C12_AtMostOneHandle ==
    /\ Cardinality(fds) <= 1
    /\ st._fhandle # 0 => fds = {<<st._fhandle, st._file>>}
    /\ Usable =>
        \A newfile \in PathArgs \cup {None, ""}, env \in EnvArgs :
            LET r == file_setter(World, newfile, env)
            IN IF NewFile(st, newfile) = st._file
               THEN r.err = "none" /\ r.w = World
               ELSE /\ r.w.fds \cap fds = {}
                    /\ Cardinality(r.w.fds) <= 1
                    /\ ~Truthy(newfile) => r.w.fds = {}
                    /\ r.err = "none" /\ Truthy(newfile) =>
                            r.w.fds = {<<r.w.st._fhandle, NewFile(st, newfile)>>}

\* C12 witness: a store bound to ~/p by a setter call that found it bound to
\* /h/p with an open handle, and which holds the handle of ~/p only
C12_Witness ==
    /\ Usable /\ last.op = "file" /\ last.err = "none"
    /\ st._file = "~/p" /\ fds = {<<st._fhandle, "~/p">>}
    /\ fs["/h/p"].kind # "missing"
    /\ file_setter([World EXCEPT !.st._file = "/h/p", !.fds = {<<1, "/h/p">>}],
                   "~/p", "ok").w = World

\* The files f2 are the files f1 but for files created empty: every file that
\* exists in f1 has its content in f2, a file missing in f1 is missing or
\* empty in f2
Untouched(f1, f2) ==
    /\ SameFiles(f1, f2)
    /\ \A f \in AllFiles : f1[f].kind = "missing" => f2[f].kind \in {"missing", "empty"}

\* The operations that C13 says never modify a file: the construction (which
\* binds and loads), the file setter, load(), set and delete
NonWriting == {"__init__", "file", "load", "__setitem__", "__delitem__"}

\* C13: a step of the constructor, of the file setter, of load(), of a set or
\* of a delete leaves every existing file as it is and creates a missing file
\* empty at most; and so does every save() that does not take the write
\* branch, whatever its arguments are.
C13_OnlyWritingSaveModifiesFiles ==
    /\ [][last'.op \in NonWriting => Untouched(fs, fs')]_vars
    /\ [](Usable =>
            \A file \in FileArgs, force \in BOOLEAN, env \in EnvArgs :
                \A r \in save(World, file, force, env) :
                    ~r.wrote => Untouched(fs, r.w.fs))

\* C13 witness: a store that a setter call has just bound to a file that
\* holds data, which the open has left in the file
C13_Witness ==
    /\ Usable /\ last.op = "file" /\ last.err = "none"
    /\ Truthy(st._file) /\ st._fhandle # 0
    /\ fs[st._file].kind = "data"


\* The sets C14 is about: a str given for a present key whose value is no
\* str and to whose type the str can be cast
CastArgs == {kv \in SetArgs :
                /\ kv[1] \in DOMAIN st.data
                /\ st.data[kv[1]].ty # "str" /\ kv[2].ty = "str"
                /\ _cast(kv[2], st.data[kv[1]]) # NoVal}

\* C14 as stated: under auto-cast such a set leaves the cast value in the
\* slot, with tracking on or off and the store dirty or not; on a clean
\* tracked store the dirty flag becomes true iff the cast value is unequal to
\* the existing one.
C14_AutoCastStoresCast ==
    Usable =>
        \A kv \in CastArgs :
            LET existing == st.data[kv[1]]
                c == _cast(kv[2], existing)
                r == __setitem__(st, TRUE, kv[1], kv[2])
            IN /\ r.err = "none"
               /\ r.st.data = Update(st.data, [k \in {kv[1]} |-> c])
               /\ st.track_changes /\ ~st.changed =>
                    (r.st.changed <=> PyNe(c, existing))

\* C14 as amended: under auto-cast such a set leaves the cast value in the
\* slot, with tracking on or off and the store dirty or not; on a clean
\* tracked store the dirty flag becomes true iff the cast value is another
\* object than the existing one and is either of a type that is not compared
\* or unequal to the existing one.
C14_AutoCastStoresCastDirtyIfDiffers ==
    Usable =>
        \A kv \in CastArgs :
            LET existing == st.data[kv[1]]
                c == _cast(kv[2], existing)
                r == __setitem__(st, TRUE, kv[1], kv[2])
            IN /\ r.err = "none"
               /\ r.st.data = Update(st.data, [k \in {kv[1]} |-> c])
               /\ st.track_changes /\ ~st.changed =>
                    (r.st.changed <=> /\ ~PyIs(c, existing)
                                      /\ (~IsComparable(c) \/ PyNe(c, existing)))
               /\ ~(st.track_changes /\ ~st.changed) => r.st.changed = st.changed

\* C14 witness: a tracked store that holds the int 7 and is dirty, in the
\* state in which the set of "7" leaves a clean store that held the int 5
C14_Witness ==
    /\ Usable /\ last.op = "__setitem__" /\ last.err = "none"
    /\ st.track_changes /\ st.changed
    /\ DOMAIN st.data = {"a"} /\ st.data["a"] = IntV(7)
    /\ __setitem__([st EXCEPT !.data = [k \in {"a"} |-> IntV(5)], !.changed = FALSE],
                   TRUE, "a", CharV("7")).st = st


\* C15: under auto-cast, a set of a str for a present key whose value is no
\* str and to whose type the str cannot be cast raises the error of the cast
\* and leaves the store as it was: the snapshot and the dirty flag, with
\* tracking on or off and the store clean or dirty.
C15_FailedCastAbortsSet ==
    Usable =>
        \A kv \in SetArgs :
            /\ kv[1] \in DOMAIN st.data
            /\ st.data[kv[1]].ty # "str" /\ kv[2].ty = "str"
            /\ _cast(kv[2], st.data[kv[1]]) = NoVal
            => LET r == __setitem__(st, TRUE, kv[1], kv[2])
               IN r.err = "CastError" /\ r.st = st

\* C15 witness: a dirty tracked store that holds an int, after a set that
\* raised the error of a cast
C15_Witness ==
    /\ Usable /\ last.op = "__setitem__" /\ last.err = "CastError"
    /\ st.track_changes /\ st.changed
    /\ "a" \in DOMAIN st.data /\ st.data["a"].ty = "int"
    /\ __setitem__(st, TRUE, "a", StrV("no", 1)).err = "CastError"


\* The bound file holds content that the decoder of the store cannot read
Undecodable(s, f) ==
    /\ Truthy(s._file) /\ s._fhandle # 0
    /\ s.default_file_format \in FileFormats
    /\ f[s._file].kind \in {"data", "corrupt"}
    /\ ~DecodeOk(s.default_file_format, f[s._file])

\* C16 as stated: a load() of a bound file with undecodable content raises the
\* error of the decoder, does not leave the defaults as the snapshot in place
\* of the content, and the content of the file stays as it was: through the
\* load() and through the finalisation of a store whose constructor has
\* raised that error.
C16_UndecodableLoadLeavesFile ==
    /\ Usable /\ Undecodable(st, fs) =>
        \A include_defaults \in BOOLEAN :
            LET r == load(World, include_defaults, None, "ok")
            IN /\ r.err = "DecodeError"
               /\ r.w.fs = fs
               /\ st.instancedefaults # EmptyMap => r.w.st.data # st.instancedefaults
    /\ st.phase = "broken" /\ last.err = "DecodeError" =>
        \A save_on_del \in BOOLEAN :
            \A r \in __del__(World, save_on_del) : r.w.fs = fs


C18_SaveRewritesThenClears ==
    Usable =>
        \A file \in FileArgs, force \in BOOLEAN, env \in EnvArgs :
            \A r \in save(World, file, force, env) :
                /\ r.wrote /\ r.err = "none" =>
                    /\ r.w.fs[r.w.st._file] \in Encodings(st.default_file_format, st.data)
                    /\ r.w.st.data = st.data
                    /\ ~r.w.st.changed
                /\ r.err # "none" =>
                    /\ r.w.st.changed = st.changed
                    /\ r.w.st.data = st.data

\* C18 witness: a dirty tracked store bound to a file that holds another
\* snapshot than its own, whose save() replaces the content of the file by
\* the encoding of the snapshot and clears the flag
C18_Witness ==
    /\ Usable /\ st.track_changes /\ st.changed
    /\ st.data # EmptyMap
    /\ Truthy(st._file) /\ fs[st._file].kind = "data"
    /\ fs[st._file] \notin Encodings(st.default_file_format, st.data)
    /\ \A r \in save(World, None, FALSE, "ok") :
        /\ r.wrote /\ r.err = "none" /\ ~r.w.st.changed
        /\ r.w.fs[st._file] \in Encodings(st.default_file_format, st.data)


\* C19: in a tracked store with a fixed binding, after a save() that wrote
\* and returned and sets and deletes since, a false dirty flag means that the
\* snapshot has the keys of the snapshot last written and an equal value for
\* every key; and no set or delete leaves the flag false that found it true.
C19_TrackingIsSound ==
    /\ [](st.phase = "live" /\ last.written # <<>> /\ ~st.changed =>
            SnapEq(st.data, last.written[1]))
    /\ [][last'.op \in {"__setitem__", "__delitem__"} /\ st.changed => st'.changed]_vars

\* C19 witness: a clean store after a set that has replaced the list that was
\* written by an equal list, another object
C19_Witness ==
    /\ Usable /\ last.op = "__setitem__" /\ last.err = "none"
    /\ last.written # <<>> /\ ~st.changed
    /\ "a" \in DOMAIN st.data /\ st.data["a"].ty = "list"
    /\ st.data # last.written[1]


\* C20 as stated: in every state of a store, also after a setter call that
\* raised, a path is bound iff the store holds an open handle, which is a
\* handle of that path; so no load() and no save() finds a bound path
\* without a handle.
C20_BoundIffHandle ==
    st.phase \in {"live", "broken"} =>
        /\ Truthy(st._file) <=> st._fhandle # 0
        /\ st._fhandle # 0 => <<st._fhandle, st._file>> \in fds
        /\ \A include_defaults \in BOOLEAN :
            load(World, include_defaults, None, "ok").err # "AttributeError"
        /\ \A force \in BOOLEAN :
            \A r \in save(World, None, force, "ok") :
                Truthy(st._file) => r.err # "AttributeError"

=============================================================================
